---- MODULE Spec2Model ----
(***************************************************************************)
(* Model of the selection layer (tv/portable/selection.py), the item state *)
(* derivation (tv/portable/item.py) and the playlist sort order            *)
(* (tv/lib/frontends/widgets/playlist.py) of Miro.                         *)
(***************************************************************************)
EXTENDS Integers, Sequences, FiniteSets, TLC

\* ------------------------------------------------------------------ bounds
MaxItems == 3
MaxTabs == 2
MaxUrgent == 1
MaxEnclosures == 2
MaxDate == 2
MaxPos == 5
MaxIds == 3
MaxLen == 2

\* ------------------------------------------------------------- identifiers
\* Object ids are tagged pairs so that tabs and items never share an id.
ItemIds == {<<"item", i>> : i \in 1..MaxItems}
FeedTabIds == {<<"feedtab", i>> : i \in 1..MaxTabs}
GuideTab == <<"guidetab", 1>>
StaticTab == <<"statictab", 1>>
TabIds == FeedTabIds \cup {GuideTab, StaticTab}
AllIds == ItemIds \cup TabIds
\* Python's None, as an id and as a view
NoneId == <<"none", 0>>
NoView == "None"

ItemViews == {"itemsA", "itemsB"}
TabViews == {"guideTabs", "staticTabs", "feedTabs"}
Views == ItemViews \cup TabViews
Areas == {"tablist", "itemlist"}

\* the ids a view can hold
Universe(view) ==
    CASE view = "guideTabs" -> {GuideTab}
      [] view = "staticTabs" -> {StaticTab}
      [] view = "feedTabs" -> FeedTabIds
      [] OTHER -> ItemIds

\* the views the user can click in: every tab view, and the item view on display
ShownViews(a) == IF a = "tablist" THEN TabViews ELSE {"itemsA"}

VARIABLES
    viewObjs,          \* view -> the ids of the objects the database view holds
    selected,          \* id -> obj.getSelected()
    currentSelection,  \* area -> SelectionArea.currentSelection
    currentView,       \* area -> SelectionArea.currentView (NoView for None)
    callbacks,         \* area -> views on which onRemove/onAdd are registered
    urgentCalls,       \* number of queued checkNoTabsSelected urgent calls
    tabListActive,     \* SelectionHandler.tabListActive
    lastDisplay,       \* SelectionHandler.lastDisplay: "None" or "set"
    retRef,            \* which set object the last calcSelection result refers to
    retVal,            \* the contents of a freshly built result set
    call               \* the last operation, its arguments and the state it started from

selVars == <<viewObjs, selected, currentSelection, currentView, callbacks,
             urgentCalls, tabListActive, lastDisplay, retRef, retVal, call>>

\* ---- Item (tv/portable/item.py)
VARIABLES
    expired, startingDownload, keep, pendingManualDL, lastDownloadFailed, seen,
    autoDownloaded,    \* the boolean fields of the Item
    downloaders,       \* Item.downloaders: sequence of [url, state]
    entry,             \* Item.entry: the feed entry, see Entries
    itemPc,            \* "idle", or "spawning" inside actualDownload (after line 281)
    downloadURLs,      \* the local downloadURLs of the actualDownload in progress
    lastState,         \* the last getState/getStateNoAuto call and its result
    icall              \* the last Item call: what it returned and what it did

itemVars == <<expired, startingDownload, keep, pendingManualDL, lastDownloadFailed, seen,
              autoDownloaded, downloaders, entry, itemPc, downloadURLs, lastState, icall>>

\* ---- PlaylistSort (tv/lib/frontends/widgets/playlist.py)
VARIABLES
    positions,         \* PlaylistSort.positions: id -> position
    current_postion,   \* the next value of the itertools.count()
    pcall              \* the last PlaylistSort call, its argument and the state before

plVars == <<positions, current_postion, pcall>>

vars == <<selVars, itemVars, plVars>>

\* ---------------------------------------------------------------- helpers

\* "for obj in view": a view iterates its objects in its sort order; the sort
\* key of an object is taken to be the number in its id
Objects(view) ==
    LET S == viewObjs[view]
    IN [k \in 1..Cardinality(S) |->
          CHOOSE x \in S : Cardinality({y \in S : y[2] < x[2]}) = k - 1]

\* view.getObjectByID(id) finds the object (otherwise ObjectNotFoundError)
HasObject(view, id) == view # NoView /\ id \in viewObjs[view]

\* The mutable state the SelectionArea methods work on, threaded through the
\* operators below; exc is the exception that is propagating, "none" if none.
Cur ==
    [cs |-> currentSelection, cv |-> currentView, cb |-> callbacks,
     fl |-> selected, uc |-> urgentCalls,
     tla |-> tabListActive, ld |-> lastDisplay, exc |-> "none"]

Raise(s, e) == [s EXCEPT !.exc = e]

\* ------------------------------------------------------- SelectionArea
clearSelection(s, a) ==
    IF s.exc # "none" THEN s
    ELSE IF s.cs[a] # {} /\ s.cv[a] = NoView THEN Raise(s, "AttributeError")
    ELSE IF \E id \in s.cs[a] : ~HasObject(s.cv[a], id)
         THEN Raise(s, "ObjectNotFoundError")
    ELSE [s EXCEPT !.fl = [id \in AllIds |-> IF id \in s.cs[a] THEN FALSE ELSE s.fl[id]],
                   !.cs[a] = {},
                   !.cb[a] = IF s.cv[a] # NoView THEN @ \ {s.cv[a]} ELSE @,
                   !.cv[a] = NoView]

switchView(s, a, view) ==
    IF s.exc # "none" \/ s.cv[a] = view THEN s
    ELSE LET s1 == IF s.cv[a] # NoView THEN clearSelection(s, a) ELSE s
         IN IF s1.exc # "none" THEN s1
            ELSE [s1 EXCEPT !.cv[a] = view, !.cb[a] = @ \cup {view}]

selectItem(s, a, view, id) ==
    LET s1 == switchView(s, a, view)
    IN IF s1.exc # "none" THEN s1
       ELSE IF ~HasObject(view, id) THEN Raise(s1, "ObjectNotFoundError")
       ELSE [s1 EXCEPT !.fl[id] = TRUE, !.cs[a] = @ \cup {id}]

deselectItem(s, a, view, id) ==
    IF s.exc # "none" THEN s
    ELSE IF view # s.cv[a] THEN Raise(s, "ValueError")
    ELSE IF ~HasObject(view, id) THEN Raise(s, "ObjectNotFoundError")
    ELSE LET s1 == [s EXCEPT !.fl[id] = FALSE]
         IN IF id \notin s1.cs[a] THEN Raise(s1, "KeyError")
            ELSE [s1 EXCEPT !.cs[a] = @ \ {id}]

toggleItemSelect(s, a, view, id) ==
    LET s1 == switchView(s, a, view)
    IN IF s1.exc # "none" THEN s1
       ELSE IF id \in s1.cs[a] THEN deselectItem(s1, a, view, id)
       ELSE selectItem(s1, a, view, id)

\* the loop of calcExtendRange over objs, the objects of the view in order,
\* from index acc.i on
RECURSIVE calcExtendLoop(_, _, _, _, _)
calcExtendLoop(s, a, objs, id, acc) ==
    IF acc.i > Len(objs) THEN acc
    ELSE LET objID == objs[acc.i]
             before == acc.idIsBefore \/ (objID = id /\ ~acc.gotFirst)
             isSel == objID \in s.cs[a]
         IN calcExtendLoop(s, a, objs, id,
                [i |-> acc.i + 1,
                 idIsBefore |-> before,
                 gotFirst |-> acc.gotFirst \/ isSel,
                 firstID |-> IF isSel /\ ~acc.gotFirst THEN objID ELSE acc.firstID,
                 lastID |-> IF isSel THEN objID ELSE acc.lastID])

\* the pair calcExtendRange returns, given the result of its loop
extendRangeResult_ignoresBefore(acc, id) ==
    <<acc.firstID, id>>

extendRangeResult(acc, id) ==
    IF acc.idIsBefore THEN <<id, acc.lastID>> ELSE <<acc.firstID, id>>

\* <<raised, firstID, lastID>>
calcExtendRange(s, a, view, id) ==
    LET acc == calcExtendLoop(s, a, Objects(view), id,
                   [i |-> 1, idIsBefore |-> FALSE, gotFirst |-> FALSE,
                    firstID |-> NoneId, lastID |-> NoneId])
    IN IF acc.firstID = NoneId \/ acc.lastID = NoneId
       THEN <<TRUE, NoneId, NoneId>>
       ELSE <<FALSE>> \o extendRangeResult(acc, id)

\* the loop of selectBetween over objs, the objects of the view in order,
\* from index i on
RECURSIVE selectBetweenLoop(_, _, _, _, _, _, _, _)
selectBetweenLoop(s, a, view, objs, firstID, lastID, i, selecting) ==
    IF s.exc # "none" \/ i > Len(objs) THEN s
    ELSE LET id == objs[i]
             s1 == IF selecting /\ id \notin s.cs[a]
                   THEN selectItem(s, a, view, id) ELSE s
             s2 == IF id = firstID /\ id \notin s1.cs[a]
                   THEN selectItem(s1, a, view, id) ELSE s1
         IN IF id = lastID THEN s2
            ELSE selectBetweenLoop(s2, a, view, objs, firstID, lastID, i + 1,
                                   selecting \/ id = firstID)

\* selectBetween with the break tested before the object is selected
RECURSIVE selectBetweenLoop_breakFirst(_, _, _, _, _, _, _, _)
selectBetweenLoop_breakFirst(s, a, view, objs, firstID, lastID, i, selecting) ==
    IF s.exc # "none" \/ i > Len(objs) THEN s
    ELSE LET id == objs[i]
             s1 == IF selecting /\ id \notin s.cs[a]
                   THEN selectItem(s, a, view, id) ELSE s
             s2 == IF id = firstID /\ id \notin s1.cs[a]
                   THEN selectItem(s1, a, view, id) ELSE s1
         IN IF id = lastID THEN s
            ELSE selectBetweenLoop_breakFirst(s2, a, view, objs, firstID, lastID, i + 1,
                                              selecting \/ id = firstID)

selectBetween_breakFirst(s, a, view, firstID, lastID) ==
    LET s1 == switchView(s, a, view)
    IN selectBetweenLoop_breakFirst(s1, a, view, Objects(view), firstID, lastID, 1, FALSE)

selectBetween(s, a, view, firstID, lastID) ==
    LET s1 == switchView(s, a, view)
    IN selectBetweenLoop(s1, a, view, Objects(view), firstID, lastID, 1, FALSE)

extendSelection(s, a, view, id) ==
    LET s1 == switchView(s, a, view)
    IN IF s1.exc # "none" THEN s1
       ELSE IF Cardinality(s1.cs[a]) = 0 THEN selectItem(s1, a, view, id)
       ELSE LET r == calcExtendRange(s1, a, view, id)
            IN IF r[1] THEN Raise(s1, "AssertionError")
               ELSE selectBetween(s1, a, view, r[2], r[3])

\* SelectionArea.onRemove without the removal from currentSelection
onRemove_keepsId(s, a, id, exists) ==
    IF id \in s.cs[a]
    THEN [s EXCEPT !.fl[id] = IF exists THEN FALSE ELSE @]
    ELSE s

\* exists is what obj.idExists() answers
onRemove(s, a, id, exists) ==
    IF id \in s.cs[a]
    THEN [s EXCEPT !.fl[id] = IF exists THEN FALSE ELSE @, !.cs[a] = @ \ {id}]
    ELSE s

onAdd(s, a, id) ==
    IF s.fl[id] /\ id \notin s.cs[a]
    THEN [s EXCEPT !.cs[a] = @ \cup {id}]
    ELSE s

\* ---------------------------------------------------- TabSelectionArea
\* Python's ==  between an int and a set: never equal
IntEqualsSet(n, S) == FALSE

tabToggleItemSelect(s, view, id) ==
    IF IntEqualsSet(Cardinality(s.cs["tablist"]), {id}) THEN s
    ELSE toggleItemSelect(s, "tablist", view, id)

tabOnRemove(s, id, exists) ==
    [onRemove(s, "tablist", id, exists) EXCEPT !.uc = @ + 1]

\* ---------------------------------------------------- SelectionHandler
\* (tab.setActive(value) acts on the Tab objects, whose active flag nothing
\* in this module reads)
setTabListActive(s, value) ==
    IF s.exc # "none" THEN s
    ELSE IF \E id \in s.cs["tablist"] : ~HasObject(s.cv["tablist"], id)
         THEN Raise([s EXCEPT !.tla = value], "ObjectNotFoundError")
    ELSE [s EXCEPT !.tla = value]

\* same: the display chosen for the selected tabs equals lastDisplay, is the
\* one the frame shows and is not the guide (decided by app.TemplateDisplay
\* and the frame, outside this module)
displayCurrentTabContent(s, same) ==
    IF s.exc # "none" THEN s
    ELSE IF Cardinality(s.cs["tablist"]) = 0 THEN Raise(s, "AssertionError")
    ELSE IF s.ld # "None" /\ same THEN s
    ELSE [clearSelection(s, "itemlist") EXCEPT !.ld = "set"]

\* views.guideTabs.resetCursor(); views.guideTabs.getNext()
FirstGuide ==
    IF Len(Objects("guideTabs")) = 0 THEN NoneId ELSE Objects("guideTabs")[1]

selectFirstGuide(s, same) ==
    IF s.exc # "none" THEN s
    ELSE IF FirstGuide = NoneId THEN Raise(s, "AttributeError")
    ELSE displayCurrentTabContent(selectItem(s, "tablist", "guideTabs", FirstGuide), same)

\* cur, next: what currentView.cur() and currentView.getNext() answer (NoneId
\* for None); same1, same2 as in displayCurrentTabContent
checkNoTabsSelected(s, cur, next, same1, same2) ==
    IF Cardinality(s.cs["tablist"]) # 0 THEN s
    ELSE IF s.cv["tablist"] = NoView THEN Raise(s, "AttributeError")
    ELSE LET prevTab == IF cur = NoneId THEN next ELSE cur
             s1 == IF prevTab = NoneId
                   THEN selectFirstGuide(s, same1)
                   ELSE selectItem(s, "tablist", s.cv["tablist"], prevTab)
         IN displayCurrentTabContent(s1, same2)

\* isinstance(selectedObj, tabs.Tab) and selectedObj.isStatic()
IsStaticTab(id) == id = StaticTab

handlerSelectItem(s, area, view, id, shiftSelect, controlSelect, same) ==
    IF ~HasObject(view, id) THEN s
    ELSE LET control == controlSelect /\ ~IsStaticTab(id)
             shift == shiftSelect /\ ~IsStaticTab(id)
             s1 == IF control
                   THEN IF area = "tablist"
                        THEN tabToggleItemSelect(s, view, id)
                        ELSE toggleItemSelect(s, area, view, id)
                   ELSE IF shift
                   THEN extendSelection(s, area, view, id)
                   ELSE selectItem(clearSelection(s, area), area, view, id)
         IN IF area = "itemlist"
            THEN setTabListActive(s1, FALSE)
            ELSE displayCurrentTabContent(setTabListActive(s1, TRUE), same)

\* calcSelection returning the area's own set instead of a copy
calcSelection_noCopy(area, sourceID) ==
    IF sourceID \in currentSelection[area]
    THEN [ref |-> area, val |-> {}]
    ELSE [ref |-> "fresh", val |-> {sourceID}]

\* the set object calcSelection returns: ref says whether it is a new set
\* ("fresh", holding val) or an area's currentSelection object itself
calcSelection(area, sourceID) ==
    IF sourceID \in currentSelection[area]
    THEN [ref |-> "fresh", val |-> currentSelection[area]]
    ELSE [ref |-> "fresh", val |-> {sourceID}]

\* the contents of the set object the last calcSelection returned
Returned == IF retRef = "fresh" THEN retVal ELSE currentSelection[retRef]


\* ------------------------------------------------------------------ Item
\* the enclosure urls of the feed entries
URLs == {"a"}
\* the states a Downloader reports
DlStates == {"downloading", "finished", "failed", "uploading"}
\* datetime.max; the dates of entries and feeds are 0 (datetime.min) .. MaxDate
DateMax == MaxDate + 1

\* a key the dictionary does not have
Missing == "missing"

\* an enclosure of a feed entry: its 'type' and 'url' keys
Enclosure(type, url) == [type |-> type, url |-> url]

\* a feed entry: its enclosures, its modified date ({} if it has none) and its
\* 'title' and 'link' keys
Entry(enclosures, modified, title, link) ==
    [enclosures |-> enclosures, modified |-> modified, title |-> title, link |-> link]

\* the entries of a feed whose items have up to MaxEnclosures enclosures, each
\* with a url and no type, and no title or link
EnclosureLists == UNION {[1..n -> {Enclosure(Missing, u) : u \in URLs}] : n \in 0..MaxEnclosures}
Entries == {Entry(e, m, Missing, Missing) :
               e \in EnclosureLists, m \in {{}} \cup {{d} : d \in 1..MaxDate}}

\* Item.getPubDateParsed: the entry's modified date, datetime.max if it has none
getPubDateParsed ==
    IF entry.modified = {} THEN DateMax ELSE CHOOSE d \in entry.modified : TRUE

\* the loop of getStateNoAuto over the downloaders, from index i on
RECURSIVE downloadersState(_, _)
downloadersState(i, state) ==
    IF i > Len(downloaders) THEN state
    ELSE LET newState == downloaders[i].state
             state1 == IF newState # "finished" THEN newState ELSE state
         IN IF state1 = "failed" THEN state1 ELSE downloadersState(i + 1, state1)

\* getStateNoAuto testing keep before startingDownload
getStateNoAuto_keepFirst ==
    LET state ==
          IF expired THEN "expired"
          ELSE IF keep THEN "saved"
          ELSE IF startingDownload THEN "downloading"
          ELSE IF pendingManualDL THEN "manualpending"
          ELSE IF Len(downloaders) = 0
               THEN IF lastDownloadFailed THEN "failed" ELSE "stopped"
          ELSE downloadersState(1, "finished")
    IN IF (state = "finished" \/ state = "uploading") /\ seen THEN "watched" ELSE state

getStateNoAuto ==
    LET state ==
          IF expired THEN "expired"
          ELSE IF startingDownload THEN "downloading"
          ELSE IF keep THEN "saved"
          ELSE IF pendingManualDL THEN "manualpending"
          ELSE IF Len(downloaders) = 0
               THEN IF lastDownloadFailed THEN "failed" ELSE "stopped"
          ELSE downloadersState(1, "finished")
    IN IF (state = "finished" \/ state = "uploading") /\ seen THEN "watched" ELSE state

\* getState without the test against datetime.max
getState_noMaxTest(autoDownloadable, getEverything, startfrom) ==
    LET state == getStateNoAuto
        lastPubDate == getPubDateParsed
    IN IF state = "stopped" /\ autoDownloadable
          /\ (getEverything \/ lastPubDate >= startfrom)
       THEN "autopending" ELSE state

\* the arguments are what the feed answers: isAutoDownloadable(), getEverything
\* and startfrom
getState(autoDownloadable, getEverything, startfrom) ==
    LET state == getStateNoAuto
        lastPubDate == getPubDateParsed
    IN IF state = "stopped" /\ autoDownloadable
          /\ (getEverything \/ (lastPubDate >= startfrom /\ lastPubDate # DateMax))
       THEN "autopending" ELSE state

\* ---- the read and change brackets
\* what an operation has done so far: reads and changes count the begin calls
\* minus the end calls, dirty says that a field the item's state depends on
\* got another value and endChange (with the feed's updateUandA) has not been
\* called since
NoBrackets == [reads |-> 0, changes |-> 0, dirty |-> FALSE]

beginRead(b) == [b EXCEPT !.reads = @ + 1]
endRead(b) == [b EXCEPT !.reads = @ - 1]
beginChange(b) == [b EXCEPT !.changes = @ + 1]
endChange(b) == [b EXCEPT !.changes = @ - 1, !.dirty = FALSE]
\* an assignment to fields of the item; changed: a value is different afterwards
assign(b, changed) == [b EXCEPT !.dirty = @ \/ changed]

\* the fields the item's state depends on
StateFields ==
    <<expired, keep, seen, pendingManualDL, startingDownload, lastDownloadFailed,
      downloaders, autoDownloaded, entry>>

\* ---- accessors
\* the enclosure types and urls of the entries the accessors are read on
Types == {Missing, "video/mpeg", "text/html"}
AccessorURLs == {Missing, "a", "b.mov"}
Titles == {Missing, "title"}
Links == {Missing, "http://link"}
AccessorEnclosureLists ==
    UNION {[1..n -> {Enclosure(ty, u) : ty \in Types, u \in AccessorURLs}] :
              n \in 0..MaxEnclosures}
AccessorEntries ==
    {Entry(e, {}, ti, li) : e \in AccessorEnclosureLists, ti \in Titles, li \in Links}

\* isVideoEnclosure: a video, audio or torrent type, or a url that ends in one
\* of the listed extensions
isVideoEnclosure(enclosure) ==
    LET hasVideoType == enclosure.type # Missing /\ enclosure.type \in {"video/mpeg"}
        hasVideoExtension == enclosure.url # Missing /\ enclosure.url \in {"b.mov"}
    IN hasVideoType \/ hasVideoExtension

\* what getFirstVideoEnclosure returns when there is no video enclosure
NoneEnclosure == Enclosure("None", "None")

\* the loop of getFirstVideoEnclosure, from index i on
RECURSIVE firstVideoLoop(_)
firstVideoLoop(i) ==
    IF i > Len(entry.enclosures) THEN NoneEnclosure
    ELSE IF isVideoEnclosure(entry.enclosures[i]) THEN entry.enclosures[i]
    ELSE firstVideoLoop(i + 1)

\* the accessors return [ret, b]: the value and the brackets after the call
getFirstVideoEnclosure(b) ==
    [ret |-> firstVideoLoop(1), b |-> endRead(beginRead(b))]

\* getURL returning the url of the first enclosure, video or not
getURL_firstEnclosure(b) ==
    LET b1 == beginRead(b)
        ret == IF entry.enclosures = <<>> \/ entry.enclosures[1].url = Missing
               THEN "" ELSE entry.enclosures[1].url
    IN [ret |-> ret, b |-> endRead(b1)]

\* .url of None, and of an enclosure without 'url', raises AttributeError
getURL(b) ==
    LET b1 == beginRead(b)
        f == getFirstVideoEnclosure(b1)
        ret == IF f.ret = NoneEnclosure \/ f.ret.url = Missing THEN "" ELSE f.ret.url
    IN [ret |-> ret, b |-> endRead(f.b)]

getTitle(b) ==
    IF entry.title # Missing THEN [ret |-> entry.title, b |-> b]
    ELSE LET f == getFirstVideoEnclosure(b)
         IN [ret |-> IF f.ret = NoneEnclosure \/ f.ret.url = Missing THEN "" ELSE f.ret.url,
             b |-> f.b]

getLink(b) ==
    [ret |-> IF entry.link = Missing THEN "" ELSE entry.link, b |-> endRead(beginRead(b))]

\* answer: what the first downloader's getFilename() returns
getFilename(b, answer) ==
    [ret |-> IF Len(downloaders) = 0 THEN "" ELSE answer, b |-> endRead(beginRead(b))]

\* hasText: the first video enclosure has a 'text' key; hasDescription: the
\* entry has a description
getDescription(b, hasText, hasDescription) ==
    LET b1 == beginRead(b)
        f == getFirstVideoEnclosure(b1)
        ret == IF f.ret # NoneEnclosure /\ hasText THEN "<span>text</span>"
               ELSE IF hasDescription THEN "<span>description</span>"
               ELSE "<span />"
    IN [ret |-> ret, b |-> endRead(f.b)]

\* feedFound: getFeed() finds the feed (it raises ObjectNotFoundError
\* otherwise); never: the feed, or the system it defers to, never expires
\* items; known: the feed's expire setting is "feed" or "system" (expireTime is
\* unbound otherwise)
getExpirationTime(b, feedFound, never, known) ==
    LET b1 == beginRead(b)
    IN IF ~feedFound THEN [ret |-> "raise", b |-> b1]
       ELSE [ret |-> IF never THEN "never" ELSE IF known THEN "time" ELSE "raise",
             b |-> endRead(b1)]

\* the record of an Item call.  ret: what an accessor returned ("raise" if the
\* call raised); held: the urls of the downloaders the item had; removed: the
\* urls of the downloaders remove() was called on; created, started: the urls
\* of the downloaders the call created and the ones it started again;
\* wasStarting: startingDownload when the call was made
NoCall == [op |-> "none", ret |-> "", reads |-> 0, changes |-> 0, dirty |-> FALSE,
           held |-> {}, removed |-> {}, created |-> {}, started |-> {},
           wasStarting |-> FALSE]

ICall(op, ret, b) ==
    [NoCall EXCEPT !.op = op, !.ret = ret, !.reads = b.reads, !.changes = b.changes,
                   !.dirty = b.dirty]

NoState == [op |-> "none", ret |-> "", auto |-> FALSE, everything |-> FALSE,
            startfrom |-> 0]

InitItem ==
    /\ expired = FALSE
    /\ startingDownload = FALSE
    /\ keep = FALSE
    /\ pendingManualDL = FALSE
    /\ lastDownloadFailed = FALSE
    /\ seen = FALSE
    /\ autoDownloaded = FALSE
    /\ downloaders = <<>>
    /\ entry = Entry(<<>>, {}, Missing, Missing)
    /\ itemPc = "idle"
    /\ downloadURLs = <<>>
    /\ lastState = NoState
    /\ icall = NoCall

ItemFrame == UNCHANGED <<selVars, plVars>>

\* the urls of the item's downloaders
HeldURLs == {downloaders[k].url : k \in DOMAIN downloaders}

\* a call that reads the item inside one read bracket
readCalls(b) == endRead(beginRead(b))

GetState(autoDownloadable, getEverything, startfrom) ==
    /\ lastState' = [op |-> "getState",
                     ret |-> getState(autoDownloadable, getEverything, startfrom),
                     auto |-> autoDownloadable, everything |-> getEverything,
                     startfrom |-> startfrom]
    /\ icall' = ICall("getState", "", endRead(readCalls(readCalls(beginRead(NoBrackets)))))
    /\ UNCHANGED <<expired, startingDownload, keep, pendingManualDL, lastDownloadFailed,
                   seen, autoDownloaded, downloaders, entry, itemPc, downloadURLs>>
    /\ ItemFrame

GetStateNoAuto ==
    /\ lastState' = [NoState EXCEPT !.op = "getStateNoAuto", !.ret = getStateNoAuto]
    /\ icall' = ICall("getStateNoAuto", "", readCalls(NoBrackets))
    /\ UNCHANGED <<expired, startingDownload, keep, pendingManualDL, lastDownloadFailed,
                   seen, autoDownloaded, downloaders, entry, itemPc, downloadURLs>>
    /\ ItemFrame

\* stopDownload leaving keep and pendingManualDL as they are
stopDownload_keepsFlags ==
    [downloaders |-> <<>>, keep |-> keep, pendingManualDL |-> pendingManualDL]

\* the fields stopDownload assigns once every dler.remove() has returned
stopDownload ==
    [downloaders |-> <<>>, keep |-> FALSE, pendingManualDL |-> FALSE]

\* the brackets of stopDownload once every dler.remove() has returned
stopDownloadCalls(b, changed) == endRead(assign(beginRead(b), changed))

\* stopDownload: every downloader is removed, the list emptied; raiseAt: the
\* downloader whose remove() raises, Len + 1 if none does
StopDownload(raiseAt) ==
    /\ itemPc = "idle"
    /\ raiseAt \in 1..(Len(downloaders) + 1)
    /\ IF raiseAt <= Len(downloaders)
       THEN /\ UNCHANGED <<downloaders, keep, pendingManualDL>>
            /\ icall' = [ICall("stopDownload", "raise", NoBrackets) EXCEPT
                            !.held = HeldURLs,
                            !.removed = {downloaders[k].url : k \in 1..(raiseAt - 1)}]
       ELSE /\ downloaders' = stopDownload.downloaders
            /\ keep' = stopDownload.keep
            /\ pendingManualDL' = stopDownload.pendingManualDL
            /\ icall' = [ICall("stopDownload", "",
                               stopDownloadCalls(NoBrackets,
                                   downloaders # <<>> \/ keep \/ pendingManualDL))
                           EXCEPT !.held = HeldURLs, !.removed = HeldURLs]
    /\ lastState' = NoState
    /\ UNCHANGED <<expired, startingDownload, lastDownloadFailed, seen, autoDownloaded,
                   entry, itemPc, downloadURLs>>
    /\ ItemFrame

\* raiseAt: as for stopDownload, which expire calls inside its read bracket
Expire(raiseAt) ==
    /\ itemPc = "idle"
    /\ raiseAt \in 1..(Len(downloaders) + 1)
    /\ IF raiseAt <= Len(downloaders)
       THEN /\ UNCHANGED <<downloaders, keep, pendingManualDL, expired>>
            /\ icall' = [ICall("expire", "raise", endRead(beginRead(NoBrackets))) EXCEPT
                            !.held = HeldURLs,
                            !.removed = {downloaders[k].url : k \in 1..(raiseAt - 1)}]
       ELSE /\ downloaders' = stopDownload.downloaders
            /\ keep' = stopDownload.keep
            /\ pendingManualDL' = stopDownload.pendingManualDL
            /\ expired' = TRUE
            /\ LET b1 == stopDownloadCalls(beginRead(NoBrackets),
                             downloaders # <<>> \/ keep \/ pendingManualDL)
                   b2 == endRead(assign(b1, ~expired))
               IN icall' = [ICall("expire", "", endChange(beginChange(b2))) EXCEPT
                               !.held = HeldURLs, !.removed = HeldURLs]
    /\ lastState' = NoState
    /\ UNCHANGED <<startingDownload, lastDownloadFailed, seen, autoDownloaded,
                   entry, itemPc, downloadURLs>>
    /\ ItemFrame

SetKeep(val) ==
    /\ itemPc = "idle"
    /\ keep' = val
    /\ lastState' = NoState
    /\ icall' = ICall("setKeep", "",
                      endChange(beginChange(endRead(assign(beginRead(NoBrackets), keep # val)))))
    /\ UNCHANGED <<expired, startingDownload, pendingManualDL, lastDownloadFailed, seen,
                   autoDownloaded, downloaders, entry, itemPc, downloadURLs>>
    /\ ItemFrame

MarkItemSeen ==
    /\ itemPc = "idle"
    /\ seen' = TRUE
    /\ lastState' = NoState
    /\ icall' = ICall("markItemSeen", "", endChange(assign(beginChange(NoBrackets), ~seen)))
    /\ UNCHANGED <<expired, startingDownload, keep, pendingManualDL, lastDownloadFailed,
                   autoDownloaded, downloaders, entry, itemPc, downloadURLs>>
    /\ ItemFrame

\* the brackets of setAutoDownloaded
setAutoDownloadedCalls(b, changed) == endRead(assign(beginRead(b), changed))

SetAutoDownloaded(autodl) ==
    /\ itemPc = "idle"
    /\ autoDownloaded' = autodl
    /\ lastState' = NoState
    /\ icall' = ICall("setAutoDownloaded", "",
                      setAutoDownloadedCalls(NoBrackets, autoDownloaded # autodl))
    /\ UNCHANGED <<expired, startingDownload, keep, pendingManualDL, lastDownloadFailed,
                   seen, downloaders, entry, itemPc, downloadURLs>>
    /\ ItemFrame

\* never: the feed's expire setting is "never"
SetDownloadedTime(never) ==
    /\ itemPc = "idle"
    /\ keep' = never
    /\ lastState' = NoState
    /\ icall' = ICall("setDownloadedTime", "",
                      endRead(assign(beginRead(NoBrackets), keep # never)))
    /\ UNCHANGED <<expired, startingDownload, pendingManualDL, lastDownloadFailed, seen,
                   autoDownloaded, downloaders, entry, itemPc, downloadURLs>>
    /\ ItemFrame

Update(newEntry) ==
    /\ itemPc = "idle"
    /\ entry' = newEntry
    /\ lastState' = NoState
    /\ icall' = ICall("update", "",
                      endChange(assign(beginChange(NoBrackets), entry # newEntry)))
    /\ UNCHANGED <<expired, startingDownload, keep, pendingManualDL, lastDownloadFailed,
                   seen, autoDownloaded, downloaders, itemPc, downloadURLs>>
    /\ ItemFrame

\* a downloader of the item reports another state
DownloaderChange(i, st) ==
    /\ itemPc = "idle"
    /\ i \in DOMAIN downloaders
    /\ downloaders[i].state # st
    /\ downloaders' = [downloaders EXCEPT ![i].state = st]
    /\ lastState' = NoState
    /\ icall' = NoCall
    /\ UNCHANGED <<expired, startingDownload, keep, pendingManualDL, lastDownloadFailed,
                   seen, autoDownloaded, entry, itemPc, downloadURLs>>
    /\ ItemFrame

\* actualDownload up to its first endChange (lines 249-284); tooMany: the
\* manual downloads have reached MAX_MANUAL_DOWNLOADS
ActualDownloadBegin(autodl, tooMany) ==
    /\ itemPc = "idle"
    /\ lastState' = NoState
    /\ IF ~autodl /\ tooMany
       THEN /\ pendingManualDL' = TRUE
            /\ expired' = FALSE
            /\ UNCHANGED <<startingDownload, keep, lastDownloadFailed, autoDownloaded,
                           itemPc, downloadURLs>>
       ELSE IF startingDownload
       THEN UNCHANGED <<expired, startingDownload, keep, pendingManualDL,
                        lastDownloadFailed, autoDownloaded, itemPc, downloadURLs>>
       ELSE /\ autoDownloaded' = autodl
            /\ expired' = FALSE
            /\ keep' = FALSE
            /\ pendingManualDL' = FALSE
            /\ lastDownloadFailed' = FALSE
            /\ downloadURLs' = [i \in DOMAIN downloaders |-> downloaders[i].url]
            /\ startingDownload' = TRUE
            /\ itemPc' = "spawning"
    /\ LET b1 == beginRead(NoBrackets)
           b2 == IF ~autodl /\ tooMany THEN assign(b1, ~pendingManualDL \/ expired)
                 ELSE IF startingDownload THEN b1
                 ELSE assign(setAutoDownloadedCalls(b1, autoDownloaded # autodl), TRUE)
       IN icall' = [ICall("actualDownload", "", endChange(beginChange(endRead(b2)))) EXCEPT
                       !.held = HeldURLs, !.wasStarting = startingDownload]
    /\ UNCHANGED <<seen, downloaders, entry>>
    /\ ItemFrame

\* the downloader the factory returns for url
NewDownloader(url) == [url |-> url, state |-> "downloading"]

\* actualDownload creating a downloader for every enclosure, whether or not its
\* url is in downloadURLs
RECURSIVE spawnLoop_noURLTest(_, _, _, _)
spawnLoop_noURLTest(i, upto, got, acc) ==
    IF i >= upto THEN acc
    ELSE LET url == entry.enclosures[i].url
         IN spawnLoop_noURLTest(i + 1, upto, got,
               IF url = Missing THEN acc
               ELSE IF got[i]
               THEN [acc EXCEPT !.dls = Append(@, NewDownloader(url)),
                                !.urls = Append(@, url),
                                !.just = @ \cup {url},
                                !.created = @ \cup {url},
                                !.b = endRead(assign(beginRead(@), TRUE))]
               ELSE [acc EXCEPT !.failed = TRUE,
                                !.b = endRead(assign(beginRead(@), ~acc.failed))])

\* the loop of actualDownload over the enclosures i .. upto - 1; got[i]: the
\* factory returns a downloader for enclosure i (None otherwise).  An
\* enclosure without 'url' raises KeyError, which the loop passes over.
RECURSIVE spawnLoop(_, _, _, _)
spawnLoop(i, upto, got, acc) ==
    IF i >= upto THEN acc
    ELSE LET url == entry.enclosures[i].url
         IN spawnLoop(i + 1, upto, got,
               IF url = Missing THEN acc
               ELSE IF url \notin {acc.urls[k] : k \in DOMAIN acc.urls}
               THEN IF got[i]
                    THEN [acc EXCEPT !.dls = Append(@, NewDownloader(url)),
                                     !.urls = Append(@, url),
                                     !.just = @ \cup {url},
                                     !.created = @ \cup {url},
                                     !.b = endRead(assign(beginRead(@), TRUE))]
                    ELSE [acc EXCEPT !.failed = TRUE,
                                     !.b = endRead(assign(beginRead(@), ~acc.failed))]
               ELSE IF url \notin acc.just
               THEN [acc EXCEPT !.dls = [k \in DOMAIN acc.dls |->
                                           IF acc.dls[k].url = url
                                           THEN [acc.dls[k] EXCEPT !.state = "downloading"]
                                           ELSE acc.dls[k]],
                                !.started = @ \cup {url}]
               ELSE acc)

\* the rest of actualDownload (lines 286-320); raiseAt: the enclosure at which
\* the downloader factory or dler.start() raises an exception other than
\* KeyError, Len + 1 if none does
ActualDownloadSpawn(got, raiseAt) ==
    /\ itemPc = "spawning"
    /\ LET acc == spawnLoop(1, raiseAt, got,
                     [dls |-> downloaders, urls |-> downloadURLs, just |-> {},
                      failed |-> lastDownloadFailed, created |-> {}, started |-> {},
                      b |-> NoBrackets])
           raised == raiseAt <= Len(entry.enclosures)
           b1 == IF raised THEN acc.b
                 ELSE endChange(beginChange(endRead(assign(beginRead(acc.b), TRUE))))
       IN /\ downloaders' = acc.dls
          /\ lastDownloadFailed' = acc.failed
          /\ icall' = [ICall("actualDownload", IF raised THEN "raise" ELSE "", b1) EXCEPT
                          !.held = HeldURLs, !.created = acc.created,
                          !.started = acc.started]
    /\ startingDownload' = (raiseAt <= Len(entry.enclosures))
    /\ itemPc' = "idle"
    /\ downloadURLs' = <<>>
    /\ lastState' = NoState
    /\ UNCHANGED <<expired, keep, pendingManualDL, seen, autoDownloaded, entry>>
    /\ ItemFrame

\* an accessor call: nothing changes but the record of the call
Accessor(op, r) ==
    /\ itemPc = "idle"
    /\ icall' = ICall(op, r.ret, r.b)
    /\ lastState' = NoState
    /\ UNCHANGED <<expired, startingDownload, keep, pendingManualDL, lastDownloadFailed,
                   seen, autoDownloaded, downloaders, entry, itemPc, downloadURLs>>
    /\ ItemFrame

GetURL == Accessor("getURL", getURL(NoBrackets))
GetTitle == Accessor("getTitle", getTitle(NoBrackets))
GetLink == Accessor("getLink", getLink(NoBrackets))
GetFilename(answer) == Accessor("getFilename", getFilename(NoBrackets, answer))
GetDescription(hasText, hasDescription) ==
    Accessor("getDescription", getDescription(NoBrackets, hasText, hasDescription))
GetExpirationTime(feedFound, never, known) ==
    Accessor("getExpirationTime", getExpirationTime(NoBrackets, feedFound, never, known))

\* what a downloader's getFilename() answers
Filenames == {"/movies/a"}

NextItem ==
    \/ \E autoDownloadable \in BOOLEAN, getEverything \in BOOLEAN,
          startfrom \in 0..DateMax :
          GetState(autoDownloadable, getEverything, startfrom)
    \/ GetStateNoAuto
    \/ \E raiseAt \in 1..(MaxEnclosures + 1) : StopDownload(raiseAt)
    \/ \E raiseAt \in 1..(MaxEnclosures + 1) : Expire(raiseAt)
    \/ \E val \in BOOLEAN : SetKeep(val)
    \/ MarkItemSeen
    \/ \E autodl \in BOOLEAN : SetAutoDownloaded(autodl)
    \/ \E never \in BOOLEAN : SetDownloadedTime(never)
    \/ \E newEntry \in Entries : Update(newEntry)
    \/ \E i \in 1..MaxEnclosures, st \in DlStates : DownloaderChange(i, st)
    \/ \E autodl \in BOOLEAN, tooMany \in BOOLEAN : ActualDownloadBegin(autodl, tooMany)
    \/ \E got \in [1..MaxEnclosures -> BOOLEAN], raiseAt \in 1..(MaxEnclosures + 1) :
          raiseAt <= Len(entry.enclosures) + 1 /\ ActualDownloadSpawn(got, raiseAt)
    \/ GetURL
    \/ GetTitle
    \/ GetLink
    \/ \E answer \in Filenames : GetFilename(answer)
    \/ \E hasText \in BOOLEAN, hasDescription \in BOOLEAN :
          GetDescription(hasText, hasDescription)
    \/ \E feedFound \in BOOLEAN, never \in BOOLEAN, known \in BOOLEAN :
          GetExpirationTime(feedFound, never, known)

\* the accessors read on entries with typed and untyped enclosures, with and
\* without urls, titles and links, and on items with and without downloaders
\* (automatic downloads in which the factory returns a downloader for every
\* enclosure and nothing raises)
NextAccessors ==
    \/ \E newEntry \in AccessorEntries : Update(newEntry)
    \/ GetURL
    \/ GetTitle
    \/ GetLink
    \/ \E answer \in Filenames : GetFilename(answer)
    \/ ActualDownloadBegin(TRUE, FALSE)
    \/ ActualDownloadSpawn([i \in 1..MaxEnclosures |-> TRUE], Len(entry.enclosures) + 1)
    \/ StopDownload(Len(downloaders) + 1)

\* the entries of a feed whose enclosures name two urls, some more than once,
\* and some no url at all
DownloadURLs == {"a", "b"}
DownloadEntries ==
    {Entry(e, {}, Missing, Missing) :
        e \in UNION {[1..n -> {Enclosure(Missing, u) : u \in DownloadURLs \cup {Missing}}] :
                        n \in 0..MaxEnclosures}}

\* downloads started, stopped and expired while the feed updates the entry
NextDownload ==
    \/ \E newEntry \in DownloadEntries : Update(newEntry)
    \/ \E autodl \in BOOLEAN, tooMany \in BOOLEAN : ActualDownloadBegin(autodl, tooMany)
    \/ \E got \in [1..MaxEnclosures -> BOOLEAN], raiseAt \in 1..(MaxEnclosures + 1) :
          raiseAt <= Len(entry.enclosures) + 1 /\ ActualDownloadSpawn(got, raiseAt)
    \/ \E raiseAt \in 1..(MaxEnclosures + 1) : StopDownload(raiseAt)
    \/ \E raiseAt \in 1..(MaxEnclosures + 1) : Expire(raiseAt)

\* ----------------------------------------------------------- PlaylistSort
PlIds == 1..MaxIds
\* the id lists passed to a PlaylistSort (ids may repeat)
IdLists == UNION {[1..n -> PlIds] : n \in 0..MaxLen}

\* dict[id] = pos
SetPos(pos, id, n) == [x \in DOMAIN pos \cup {id} |-> IF x = id THEN n ELSE pos[x]]

\* add_items without the test "item.id not in self.positions"
RECURSIVE add_items_reassigns(_, _, _)
add_items_reassigns(st, item_list, i) ==
    IF i > Len(item_list) THEN st
    ELSE add_items_reassigns([pos |-> SetPos(st.pos, item_list[i], st.count),
                              count |-> st.count + 1], item_list, i + 1)

\* add_items over item_list (the ids of the items), from index i on;
\* st = [pos |-> positions, count |-> the counter's next value]
RECURSIVE add_items(_, _, _)
add_items(st, item_list, i) ==
    IF i > Len(item_list) THEN st
    ELSE add_items(IF item_list[i] \notin DOMAIN st.pos
                   THEN [pos |-> SetPos(st.pos, item_list[i], st.count),
                         count |-> st.count + 1]
                   ELSE st,
                   item_list, i + 1)

\* forget_items: del positions[id] for each id, KeyError at the first id that
\* has no position
RECURSIVE forget_items(_, _, _)
forget_items(pos, id_list, i) ==
    IF i > Len(id_list) \/ id_list[i] \notin DOMAIN pos THEN pos
    ELSE forget_items([x \in DOMAIN pos \ {id_list[i]} |-> pos[x]], id_list, i + 1)

\* the dict built from the pairs (id_order[i], count + i - 1), later pairs
\* replacing earlier ones
RECURSIVE dictOf(_, _, _, _)
dictOf(pos, id_order, count, i) ==
    IF i > Len(id_order) THEN pos
    ELSE dictOf(SetPos(pos, id_order[i], count + i - 1), id_order, count, i + 1)

\* set_new_order updating the old dict instead of replacing it
set_new_order_keepsOld(st, id_order) ==
    [pos |-> dictOf(st.pos, id_order, st.count, 1), count |-> st.count + Len(id_order)]

set_new_order(st, id_order) ==
    [pos |-> dictOf(<<>>, id_order, st.count, 1), count |-> st.count + Len(id_order)]

\* sort_key(item)
sort_key(id) == positions[id]

\* the ids S sorted by sort_key, ascending
SortedByKey(S) ==
    CHOOSE s \in [1..Cardinality(S) -> S] :
        /\ {s[i] : i \in DOMAIN s} = S
        /\ \A i \in DOMAIN s, j \in DOMAIN s : i < j => sort_key(s[i]) <= sort_key(s[j])

PlState == [pos |-> positions, count |-> current_postion]

PlCall(op, arg) == [op |-> op, arg |-> arg, pre |-> positions, preCount |-> current_postion]

InitPlaylist ==
    /\ positions = <<>>
    /\ current_postion = 0
    /\ pcall = PlCall("init", <<>>)

PlFrame == UNCHANGED <<selVars, itemVars>>

AddItems(item_list) ==
    /\ current_postion + Len(item_list) <= MaxPos
    /\ LET st == add_items(PlState, item_list, 1)
       IN positions' = st.pos /\ current_postion' = st.count
    /\ pcall' = PlCall("add_items", item_list)
    /\ PlFrame

ForgetItems(id_list) ==
    /\ positions' = forget_items(positions, id_list, 1)
    /\ pcall' = [PlCall("forget_items", id_list) EXCEPT !.pre = <<>>, !.preCount = 0]
    /\ UNCHANGED current_postion
    /\ PlFrame

SetNewOrder(id_order) ==
    /\ current_postion + Len(id_order) <= MaxPos
    /\ LET st == set_new_order(PlState, id_order)
       IN positions' = st.pos /\ current_postion' = st.count
    /\ pcall' = PlCall("set_new_order", id_order)
    /\ PlFrame

NextPlaylist ==
    \/ \E item_list \in IdLists : AddItems(item_list)
    \/ \E id_list \in IdLists : ForgetItems(id_list)
    \/ \E id_order \in IdLists : SetNewOrder(id_order)

\* ------------------------------------------------------------- actions
NoPre == [a \in Areas |-> {}]
NoPreView == [a \in Areas |-> NoView]

\* the record of a call on one area: its arguments, the exception it raised and
\* the selection and view that area started from
Call(op, area, view, id, id2, mod, exc) ==
    [op |-> op, area |-> area, view |-> view, id |-> id, id2 |-> id2, mod |-> mod,
     pre |-> [NoPre EXCEPT ![area] = currentSelection[area]],
     preView |-> [NoPreView EXCEPT ![area] = currentView[area]], exc |-> exc]

\* the record of a database callback or a queued call
Event(op, view, id) ==
    [op |-> op, area |-> "", view |-> view, id |-> id, id2 |-> NoneId, mod |-> "",
     pre |-> NoPre, preView |-> NoPreView, exc |-> "none"]

\* the record of a call that is stated against the whole selection state
CallAll(op, area, id) ==
    [op |-> op, area |-> area, view |-> NoView, id |-> id, id2 |-> NoneId, mod |-> "",
     pre |-> currentSelection, preView |-> currentView, exc |-> "none"]

Commit(s) ==
    /\ currentSelection' = s.cs
    /\ currentView' = s.cv
    /\ callbacks' = s.cb
    /\ selected' = s.fl
    /\ urgentCalls' = s.uc
    /\ tabListActive' = s.tla
    /\ lastDisplay' = s.ld

\* the caller of calcSelection keeps the result only while it handles its event
DropResult == retRef' = "none" /\ retVal' = {}

SelectItem(a, view, id) ==
    LET s == selectItem(Cur, a, view, id)
    IN /\ Commit(s)
       /\ call' = Call("selectItem", a, view, id, NoneId, "", s.exc)
       /\ DropResult
       /\ UNCHANGED <<viewObjs, itemVars, plVars>>

DeselectItem(a, view, id) ==
    LET s == deselectItem(Cur, a, view, id)
    IN /\ Commit(s)
       /\ call' = Call("deselectItem", a, view, id, NoneId, "", s.exc)
       /\ DropResult
       /\ UNCHANGED <<viewObjs, itemVars, plVars>>

ToggleItemSelect(a, view, id) ==
    LET s == toggleItemSelect(Cur, a, view, id)
    IN /\ Commit(s)
       /\ call' = Call("toggleItemSelect", a, view, id, NoneId, "", s.exc)
       /\ DropResult
       /\ UNCHANGED <<viewObjs, itemVars, plVars>>

ExtendSelection(a, view, id) ==
    LET s == extendSelection(Cur, a, view, id)
    IN /\ Commit(s)
       /\ call' = Call("extendSelection", a, view, id, NoneId, "", s.exc)
       /\ DropResult
       /\ UNCHANGED <<viewObjs, itemVars, plVars>>

SelectBetween(a, view, firstID, lastID) ==
    LET s == selectBetween(Cur, a, view, firstID, lastID)
    IN /\ Commit(s)
       /\ call' = Call("selectBetween", a, view, firstID, lastID, "", s.exc)
       /\ DropResult
       /\ UNCHANGED <<viewObjs, itemVars, plVars>>

ClearSelection(a) ==
    LET s == clearSelection(Cur, a)
    IN /\ Commit(s)
       /\ call' = Call("clearSelection", a, NoView, NoneId, NoneId, "", s.exc)
       /\ DropResult
       /\ UNCHANGED <<viewObjs, itemVars, plVars>>

\* the area whose callbacks are registered on the view, if any
Listeners(view) == {a \in Areas : view \in callbacks[a]}

\* the database adds an object to a view and calls the add callbacks
ViewAdd(view, id) ==
    /\ id \notin viewObjs[view]
    /\ viewObjs' = [viewObjs EXCEPT ![view] = @ \cup {id}]
    /\ LET s == IF "itemlist" \in Listeners(view) THEN onAdd(Cur, "itemlist", id)
                ELSE IF "tablist" \in Listeners(view) THEN onAdd(Cur, "tablist", id)
                ELSE Cur
       IN Commit(s)
    /\ call' = Event("onAdd", view, id)
    /\ DropResult
    /\ UNCHANGED <<itemVars, plVars>>

\* the database removes an object from a view and calls the remove callbacks
ViewRemove(view, id, exists) ==
    /\ id \in viewObjs[view]
    /\ "tablist" \in Listeners(view) => urgentCalls < MaxUrgent
    /\ viewObjs' = [viewObjs EXCEPT ![view] = @ \ {id}]
    /\ LET s == IF "itemlist" \in Listeners(view) THEN onRemove(Cur, "itemlist", id, exists)
                ELSE IF "tablist" \in Listeners(view) THEN tabOnRemove(Cur, id, exists)
                ELSE Cur
       IN Commit(s)
    /\ call' = Event("onRemove", view, id)
    /\ DropResult
    /\ UNCHANGED <<itemVars, plVars>>

\* the event loop runs one queued checkNoTabsSelected call
RunUrgentCall(cur, next, same1, same2) ==
    /\ urgentCalls > 0
    /\ LET s == checkNoTabsSelected([Cur EXCEPT !.uc = @ - 1], cur, next, same1, same2)
       IN /\ Commit(s)
          /\ call' = Event("checkNoTabsSelected", NoView, NoneId)
    /\ DropResult
    /\ UNCHANGED <<viewObjs, itemVars, plVars>>

\* (the selection a click started from is recorded for a control-select, the
\* case whose effect is stated against it)
HandlerSelectItem(area, view, id, shiftSelect, controlSelect, same) ==
    LET s == handlerSelectItem(Cur, area, view, id, shiftSelect, controlSelect, same)
    IN /\ Commit(s)
       /\ call' = IF controlSelect /\ ~IsStaticTab(id) /\ HasObject(view, id)
                  THEN Call("handler.selectItem", area, view, id, NoneId, "control", s.exc)
                  ELSE Event("handler.selectItem", view, id)
       /\ DropResult
       /\ UNCHANGED <<viewObjs, itemVars, plVars>>

CalcSelection(area, sourceID) ==
    LET r == calcSelection(area, sourceID)
    IN /\ retRef' = r.ref
       /\ retVal' = r.val
       /\ call' = CallAll("calcSelection", area, sourceID)
       /\ UNCHANGED <<viewObjs, selected, currentSelection, currentView,
                      callbacks, urgentCalls, tabListActive, lastDisplay>>
       /\ UNCHANGED <<itemVars, plVars>>

\* the caller adds x to, or discards it from, the set calcSelection returned,
\* and is done with it
MutateReturned(x, add) ==
    /\ call.op = "calcSelection"
    /\ LET new == IF add THEN Returned \cup {x} ELSE Returned \ {x}
       IN IF retRef = "fresh"
          THEN UNCHANGED currentSelection
          ELSE currentSelection' = [currentSelection EXCEPT ![retRef] = new]
    /\ DropResult
    /\ call' = [call EXCEPT !.op = "mutateReturned"]
    /\ UNCHANGED <<viewObjs, selected, currentView, callbacks, urgentCalls,
                   tabListActive, lastDisplay>>
    /\ UNCHANGED <<itemVars, plVars>>

InitSelection ==
    /\ viewObjs = [v \in Views |-> Universe(v)]
    /\ selected = [id \in AllIds |-> FALSE]
    /\ currentSelection = [a \in Areas |-> {}]
    /\ currentView = [a \in Areas |-> NoView]
    /\ callbacks = [a \in Areas |-> {}]
    /\ urgentCalls = 0
    /\ tabListActive = TRUE
    /\ lastDisplay = "None"
    /\ retRef = "none"
    /\ retVal = {}
    /\ call = Event("init", NoView, NoneId)

Init == InitSelection /\ InitItem /\ InitPlaylist

\* a SelectionArea (the item list) driven through its own methods and the
\* callbacks of its views; objects enter and leave the view itemsA, while
\* itemsB is a second view of the same objects to switch to
Next ==
    \/ \E view \in ItemViews, id \in ItemIds : SelectItem("itemlist", view, id)
    \/ \E view \in ItemViews, id \in ItemIds : DeselectItem("itemlist", view, id)
    \/ \E view \in ItemViews, id \in ItemIds : ToggleItemSelect("itemlist", view, id)
    \/ \E view \in ItemViews, id \in ItemIds : ExtendSelection("itemlist", view, id)
    \/ \E view \in ItemViews, id \in ItemIds, id2 \in ItemIds :
          SelectBetween("itemlist", view, id, id2)
    \/ ClearSelection("itemlist")
    \/ \E id \in ItemIds : ViewAdd("itemsA", id)
    \/ \E id \in ItemIds, exists \in BOOLEAN : ViewRemove("itemsA", id, exists)

Spec == Init /\ [][Next]_vars

\* the SelectionHandler: clicks in the tab list and the item list, feed tabs
\* coming and going, and the queued checkNoTabsSelected calls
NextHandler ==
    \/ \E area \in Areas : \E view \in ShownViews(area) : \E id \in Universe(view) :
          \E shiftSelect \in BOOLEAN, controlSelect \in BOOLEAN, same \in BOOLEAN :
             HandlerSelectItem(area, view, id, shiftSelect, controlSelect, same)
    \/ \E id \in FeedTabIds : ViewAdd("feedTabs", id)
    \/ \E id \in FeedTabIds, exists \in BOOLEAN : ViewRemove("feedTabs", id, exists)
    \/ \E cur \in TabIds \cup {NoneId}, next \in TabIds \cup {NoneId} :
          \E same1 \in BOOLEAN, same2 \in BOOLEAN :
             /\ currentView["tablist"] # NoView
                   => {cur, next} \subseteq viewObjs[currentView["tablist"]] \cup {NoneId}
             /\ RunUrgentCall(cur, next, same1, same2)
    \/ \E area \in Areas : \E view \in ShownViews(area) : \E id \in Universe(view) :
          CalcSelection(area, id)
    \/ \E x \in AllIds, add \in BOOLEAN : MutateReturned(x, add)

SpecHandler == Init /\ [][NextHandler]_vars

\* an Item driven through its methods, with its downloaders reporting progress
SpecItem == Init /\ [][NextItem]_vars

\* a PlaylistSort driven through add_items, forget_items and set_new_order
SpecPlaylist == Init /\ [][NextPlaylist]_vars

\* the accessors of an Item
SpecAccessors == Init /\ [][NextAccessors]_vars

\* the downloads of an Item
SpecDownload == Init /\ [][NextDownload]_vars

\* ------------------------------------------------------------- properties
\* position of id in the iteration order of view
Pos(view, id) == CHOOSE k \in 1..Len(Objects(view)) : Objects(view)[k] = id
FirstPos(view, S) == CHOOSE k \in {Pos(view, x) : x \in S} :
                        \A j \in {Pos(view, x) : x \in S} : k <= j
LastPos(view, S) == CHOOSE k \in {Pos(view, x) : x \in S} :
                       \A j \in {Pos(view, x) : x \in S} : k >= j
Span(view, from, to) == {Objects(view)[k] : k \in from..to}

\* C1: every selected id is the id of an object of currentView, and selectItem
\* in a view other than currentView leaves nothing selected that was selected
\* in the previous view: the selection afterwards holds at most the new id and
\* the selected flag of every other previously selected object is cleared.
C1_SelectionScopedToCurrentView ==
    /\ \A a \in Areas : \A id \in currentSelection[a] : HasObject(currentView[a], id)
    /\ (call.op = "selectItem" /\ call.preView[call.area] # call.view)
          => /\ currentSelection[call.area] \subseteq {call.id}
             /\ \A x \in call.pre[call.area] \ {call.id} : ~selected[x]

\* selectItem switched from a view with two selected objects to another view
C1_Witness ==
    /\ call.op = "selectItem"
    /\ call.exc = "none"
    /\ call.preView[call.area] \notin {NoView, call.view}
    /\ Cardinality(call.pre[call.area]) >= 2
    /\ currentSelection[call.area] = {call.id}
    /\ currentView[call.area] = call.view

\* C8: extendSelection(view, id), id an object of view.  With a non-empty
\* selection in view: no selected id is deselected; if id comes before every
\* selected object the selection contains everything from id to the last
\* selected object, otherwise everything from the first selected object to
\* id.  With no selection in view the selection becomes exactly {id}.
C8_ExtendSelection ==
    (call.op = "extendSelection" /\ HasObject(call.view, call.id))
       => LET a == call.area
              v == call.view
              pre == call.pre[a]
          IN IF call.preView[a] = v /\ pre # {}
             THEN /\ call.exc = "none"
                  /\ pre \subseteq currentSelection[a]
                  /\ IF Pos(v, call.id) < FirstPos(v, pre)
                     THEN Span(v, Pos(v, call.id), LastPos(v, pre))
                             \subseteq currentSelection[a]
                     ELSE Span(v, FirstPos(v, pre), Pos(v, call.id))
                             \subseteq currentSelection[a]
             ELSE currentSelection[a] = {call.id}

\* extendSelection with id on top of a selection that has a gap below it
C8_Witness ==
    /\ call.op = "extendSelection"
    /\ HasObject(call.view, call.id)
    /\ call.preView[call.area] = call.view
    /\ call.pre[call.area] # {}
    /\ Pos(call.view, call.id) + 1 < FirstPos(call.view, call.pre[call.area])
    /\ call.exc = "none"

\* C9: selectBetween(view, firstID, lastID), both objects of view: afterwards
\* every object at a position from firstID's to lastID's is in
\* currentSelection with its selected flag set, and every id selected by the
\* call lies in that range.
C9_SelectBetween ==
    (call.op = "selectBetween" /\ HasObject(call.view, call.id)
                               /\ HasObject(call.view, call.id2))
       => LET a == call.area
              v == call.view
              range == Span(v, Pos(v, call.id), Pos(v, call.id2))
          IN /\ call.exc = "none"
             /\ range \subseteq currentSelection[a]
             /\ \A x \in range : selected[x]
             /\ currentSelection[a] \ call.pre[a] \subseteq range

\* selectBetween over three or more objects, starting from a selection that
\* holds the last of them only
C9_Witness ==
    /\ call.op = "selectBetween"
    /\ HasObject(call.view, call.id)
    /\ HasObject(call.view, call.id2)
    /\ Pos(call.view, call.id) + 2 <= Pos(call.view, call.id2)
    /\ call.preView[call.area] = call.view
    /\ call.pre[call.area] = {call.id2}

\* C2: in a TabSelectionArea in which a tab has been selected, once no
\* checkNoTabsSelected call is queued, at least one tab is selected.
C2_SomeTabStaysSelected ==
    (currentView["tablist"] # NoView /\ urgentCalls = 0)
       => currentSelection["tablist"] # {}

\* C3: a control-select of the only selected tab leaves currentSelection,
\* currentView and the tab's selected flag as they were.
C3_ToggleKeepsLastTab ==
    (call.op = "handler.selectItem" /\ call.area = "tablist" /\ call.mod = "control"
        /\ call.pre["tablist"] = {call.id})
       => /\ currentSelection["tablist"] = {call.id}
          /\ currentView["tablist"] = call.preView["tablist"]
          /\ selected[call.id]

\* C10: calcSelection(area, sourceID) returns the area's whole selection when
\* sourceID is in it and {sourceID} otherwise, changes no area's
\* currentSelection or currentView, and neither does a later mutation of the
\* set it returned.
C10_CalcSelection ==
    /\ call.op = "calcSelection"
          => /\ Returned = IF call.id \in call.pre[call.area]
                           THEN call.pre[call.area] ELSE {call.id}
             /\ currentSelection = call.pre
             /\ currentView = call.preView
    /\ call.op = "mutateReturned"
          => /\ currentSelection = call.pre
             /\ currentView = call.preView

\* the set returned for a clicked id inside a selection of two was mutated
C10_Witness ==
    /\ call.op = "mutateReturned"
    /\ call.id \in currentSelection[call.area]
    /\ Cardinality(currentSelection[call.area]) >= 2

\* C4: getStateNoAuto goes by fixed priority: "expired" if expired; else
\* "downloading" if startingDownload; else "saved" if keep; else
\* "manualpending" if pendingManualDL; else, with no downloaders, "failed" if
\* lastDownloadFailed and "stopped" if not; only otherwise is the label taken
\* from the downloaders' states.
C4_StatePriority ==
    lastState.op = "getStateNoAuto"
       => LET r == lastState.ret
          IN IF expired THEN r = "expired"
             ELSE IF startingDownload THEN r = "downloading"
             ELSE IF keep THEN r = "saved"
             ELSE IF pendingManualDL THEN r = "manualpending"
             ELSE IF downloaders = <<>>
                  THEN r = IF lastDownloadFailed THEN "failed" ELSE "stopped"
             ELSE r \in {downloaders[i].state : i \in DOMAIN downloaders}
                           \cup {"finished", "watched"}

\* getStateNoAuto answered "downloading" for an item that is being started,
\* is marked keep and has a failed downloader
C4_Witness ==
    /\ lastState.op = "getStateNoAuto"
    /\ lastState.ret = "downloading"
    /\ startingDownload /\ keep /\ ~expired
    /\ \E i \in DOMAIN downloaders : downloaders[i].state = "failed"

\* C5: getState returns "autopending" exactly when getStateNoAuto is
\* "stopped", the feed is auto-downloadable and either the feed gets
\* everything or the entry's publication date is known and not earlier than
\* the feed's startfrom; otherwise it returns what getStateNoAuto returns.
C5_AutoPending ==
    lastState.op = "getState"
       => LET eligible ==
                 /\ getStateNoAuto = "stopped"
                 /\ lastState.auto
                 /\ \/ lastState.everything
                    \/ \E d \in entry.modified : d >= lastState.startfrom
          IN lastState.ret = IF eligible THEN "autopending" ELSE getStateNoAuto

\* getState of a stopped item of an auto-downloadable feed whose entry has no
\* publication date
C5_Witness ==
    /\ lastState.op = "getState"
    /\ lastState.ret = "stopped"
    /\ lastState.auto /\ ~lastState.everything
    /\ entry.modified = {}
    /\ lastState.startfrom <= MaxDate

Distinct(seq) == \A i \in DOMAIN seq, j \in DOMAIN seq : i # j => seq[i] # seq[j]
FirstIndex(seq, x) == CHOOSE i \in DOMAIN seq : seq[i] = x /\ \A j \in 1..(i - 1) : seq[j] # x

\* C6: add_items leaves the position of every id that has one unchanged and
\* gives each other id of the list a position greater than every position
\* assigned before the call (all of which are below the counter), in the order
\* the ids are passed; the counter stays above every position.
C6_AddItemsAppends ==
    /\ \A id \in DOMAIN positions : positions[id] < current_postion
    /\ pcall.op = "add_items"
          => LET new == {pcall.arg[i] : i \in DOMAIN pcall.arg} \ DOMAIN pcall.pre
             IN /\ DOMAIN positions = DOMAIN pcall.pre \cup new
                /\ \A id \in DOMAIN pcall.pre : positions[id] = pcall.pre[id]
                /\ \A id \in new :
                      /\ positions[id] >= pcall.preCount
                      /\ \A old \in DOMAIN pcall.pre : positions[id] > positions[old]
                /\ \A x \in new, y \in new :
                      FirstIndex(pcall.arg, x) < FirstIndex(pcall.arg, y)
                         => positions[x] < positions[y]

\* add_items was passed a new id after one that had a position, in a
\* PlaylistSort whose counter had run ahead of its positions
C6_Witness ==
    /\ pcall.op = "add_items"
    /\ Len(pcall.arg) >= 2
    /\ pcall.arg[1] \in DOMAIN pcall.pre
    /\ pcall.arg[2] \notin DOMAIN pcall.pre
    /\ Cardinality(DOMAIN pcall.pre) >= 2
    /\ pcall.preCount > Cardinality(DOMAIN pcall.pre)

\* C7: after set_new_order(id_order) with pairwise distinct ids, exactly the
\* ids of id_order have a position and sorting them by sort_key yields
\* id_order.
C7_SetNewOrder ==
    (pcall.op = "set_new_order" /\ Distinct(pcall.arg))
       => /\ DOMAIN positions = {pcall.arg[i] : i \in DOMAIN pcall.arg}
          /\ SortedByKey(DOMAIN positions) = pcall.arg

\* set_new_order swapped two ids of a playlist and dropped a third
C7_Witness ==
    /\ pcall.op = "set_new_order"
    /\ Distinct(pcall.arg)
    /\ Len(pcall.arg) >= 2
    /\ \E id \in DOMAIN pcall.pre : id \notin DOMAIN positions
    /\ \E x \in DOMAIN positions, y \in DOMAIN positions :
          x \in DOMAIN pcall.pre /\ y \in DOMAIN pcall.pre
             /\ pcall.pre[x] < pcall.pre[y] /\ positions[x] > positions[y]

\* C11: in every state of a SelectionArea, currentView is None when
\* currentSelection is empty, also after deselectItem or onRemove has removed
\* the last selected id.
C11_NoViewWithoutSelection ==
    \A a \in Areas : currentSelection[a] = {} => currentView[a] = NoView

C13_BracketsBalanced ==
    icall.reads = 0 /\ icall.changes = 0

\* C14: a call of actualDownload made while startingDownload is set creates
\* and starts no downloader, and the item never holds two downloaders for the
\* same url, also when the entry lists a url in several enclosures.
C14_OneDownloaderPerURL ==
    /\ \A i \in DOMAIN downloaders, j \in DOMAIN downloaders :
          i # j => downloaders[i].url # downloaders[j].url
    /\ (icall.op = "actualDownload" /\ icall.wasStarting)
          => /\ itemPc = "idle"
             /\ icall.created = {} /\ icall.started = {}
             /\ HeldURLs = icall.held

\* actualDownload created a downloader for a url that two enclosures list, on
\* an item that already had a downloader
C14_Witness ==
    /\ icall.op = "actualDownload"
    /\ itemPc = "idle"
    /\ icall.held # {}
    /\ \E i \in DOMAIN entry.enclosures, j \in DOMAIN entry.enclosures :
          /\ i # j
          /\ entry.enclosures[i].url = entry.enclosures[j].url
          /\ entry.enclosures[i].url \in icall.created

\* C15: when an Item operation that gave another value to a field the item's
\* state depends on has returned, it has called endChange after the change.
C15_EndChangeAfterChange ==
    itemPc = "idle" => ~icall.dirty

\* C16: when expire() has returned, remove() has been called on every
\* downloader the item held, downloaders is empty, keep and pendingManualDL are
\* cleared and expired is set; getState returns "expired" for an expired item
\* whatever its other fields; and only actualDownload clears expired.
C16_Expire ==
    /\ [](/\ (icall.op = "expire" /\ icall.ret # "raise")
                => /\ icall.removed = icall.held
                   /\ downloaders = <<>>
                   /\ ~keep /\ ~pendingManualDL
                   /\ expired
          /\ (lastState.op = "getState" /\ expired) => lastState.ret = "expired")
    /\ [][(expired /\ ~expired') => icall'.op = "actualDownload"]_vars

\* getState on an item that was expired while it had a downloader and was
\* then marked to be kept
C16_Witness ==
    /\ lastState.op = "getState"
    /\ lastState.ret = "expired"
    /\ lastState.auto
    /\ expired
    /\ keep

====
